---------------------------- MODULE Spec2Model ----------------------------
(***************************************************************************)
(* Model of bin/navigate.py (directory navigation database) and of         *)
(* lumann/utils/file.py atomic_write.                                      *)
(*                                                                         *)
(* Conventions                                                             *)
(*   - a Python str is a sequence of one-character strings; the empty      *)
(*     sequence stands for both None and "" (the code only ever tests      *)
(*     these values for truthiness);                                       *)
(*   - a Python dict is a sequence of [key, val] records in insertion      *)
(*     order (dict iteration order, kept by json.dumps / json.load);       *)
(*   - a count is an exact multiple of 1/Scale, Scale = 100^MaxInvocations,  *)
(*     so that a multiplication by 0.99 per invocation is exact;           *)
(*   - the text of the database file is a sequence of named sections; a    *)
(*     text with fewer than four sections is a truncated JSON document.    *)
(***************************************************************************)
EXTENDS Integers, Sequences, FiniteSets, TLC

VARIABLES
    file,        \* $LUMANN_DATA/navigate.json: [exists, text]
    tmp,         \* tmp[s]: the NamedTemporaryFile of session s: [exists, text]
    clock,       \* the latest value returned by time.time()
    budget,      \* invocations that may still be started
    pc,          \* pc[s]: position of the invocation of session s in main()
    branch,      \* branch[s]: the branch of main() this invocation took
    args,        \* args[s]: argparse namespace
    cwd,         \* cwd[s]: os.getcwd()
    selection,   \* selection[s]: the line read by input()
    data,        \* data[s]: the in-memory database
    jump_directory, \* jump_directory[s]
    json_data,   \* json_data[s]: the text handed to atomic_write
    stdout,      \* stdout[s]: lines printed to sys.stdout
    exit_code,   \* exit_code[s]: -1 while running, else the exit status
    saves        \* saves[s]: calls of write_data by this invocation

vars == <<file, tmp, clock, budget, pc, branch, args, cwd, selection, data,
          jump_directory, json_data, stdout, exit_code, saves>>

---------------------------------------------------------------------------
(* Bounds *)

MaxInvocations == 3
MaxConcInvocations == 2
MaxTicks == 2
MaxMenuDirs == 12

\* Two shell sessions share one database file.
Sessions == {1, 2}

---------------------------------------------------------------------------
(* Program constants *)

MAX_CHOICES == 10
MAX_AGE == 30 * 24 * 3600

\* One unit of frequency; counts are integers in units of 1/Scale.
RECURSIVE Pow(_, _)
Pow(b, n) == IF n = 0 THEN 1 ELSE b * Pow(b, n - 1)
Scale == Pow(100, MaxInvocations)

\* x * DISCOUNT_FACTOR with DISCOUNT_FACTOR = 0.99
DISCOUNT_FACTOR(x) == (x \div 100) * 99

---------------------------------------------------------------------------
(* Strings *)

None == << >>
Truthy(x) == x # << >>

\* target in directory  (str.__contains__)
IsSubstring(target, directory) ==
    \E i \in 0..(Len(directory) - Len(target)) :
        SubSeq(directory, i + 1, i + Len(target)) = target

\* mark.startswith(key): the receiver and the argument exchanged
startswith_exchanged(key, mark) ==
    /\ Len(key) <= Len(mark)
    /\ SubSeq(mark, 1, Len(key)) = key

\* key.startswith(mark)
startswith(key, mark) ==
    /\ Len(mark) <= Len(key)
    /\ SubSeq(key, 1, Len(mark)) = mark

\* str(idx) for the indices the menu can render (two lists of MAX_CHOICES)
str(idx) ==
    <<"0", "1", "2", "3", "4", "5", "6", "7", "8", "9", "10", "11", "12",
      "13", "14", "15", "16", "17", "18", "19">>[idx + 1]

---------------------------------------------------------------------------
(* Dictionaries in insertion order *)

Keys(d) == { d[i].key : i \in 1..Len(d) }
Has(d, k) == \E i \in 1..Len(d) : d[i].key = k
IndexOf(d, k) == CHOOSE i \in 1..Len(d) : d[i].key = k
Get(d, k) == d[IndexOf(d, k)].val

\* d[k] = v : overwrite in place, or append a new key
Put(d, k, v) ==
    IF Has(d, k)
    THEN [d EXCEPT ![IndexOf(d, k)] = [key |-> k, val |-> v]]
    ELSE Append(d, [key |-> k, val |-> v])

\* d.pop(k, None)
Pop(d, k) == SelectSeq(d, LAMBDA e : e.key # k)

\* sorted without reverse=True: ascending by value
InsertAscByVal(sorted, e) ==
    LET n == Cardinality({ i \in 1..Len(sorted) : sorted[i].val <= e.val })
    IN  SubSeq(sorted, 1, n) \o <<e>> \o SubSeq(sorted, n + 1, Len(sorted))

\* sorted(d.items(), key=operator.itemgetter(1), reverse=True): stable,
\* descending by value; equal values keep their dictionary order.
InsertDesc(sorted, e) ==
    LET n == Cardinality({ i \in 1..Len(sorted) : sorted[i].val >= e.val })
    IN  SubSeq(sorted, 1, n) \o <<e>> \o SubSeq(sorted, n + 1, Len(sorted))

RECURSIVE SortedDesc(_)
SortedDesc(d) ==
    IF d = << >> THEN << >>
    ELSE InsertDesc(SortedDesc(SubSeq(d, 1, Len(d) - 1)), d[Len(d)])

\* ord(c) for the characters of the modelled strings
ord(c) ==
    CASE c = "/" -> 47 [] c = "1" -> 49 [] c = "2" -> 50 [] c = "3" -> 51
      [] c = "a" -> 97 [] c = "d" -> 100 [] c = "e" -> 101 [] c = "j" -> 106
      [] c = "l" -> 108 [] c = "n" -> 110 [] c = "o" -> 111 [] c = "p" -> 112
      [] c = "r" -> 114 [] c = "t" -> 116 [] c = "u" -> 117 [] c = "x" -> 120
      [] c = "y" -> 121 [] c = "z" -> 122

\* a < b on str: lexicographic by code point
StrLess(a, b) ==
    \E i \in 1..(Len(b)) :
        /\ \A j \in 1..(i - 1) : j <= Len(a) /\ a[j] = b[j]
        /\ \/ i = Len(a) + 1
           \/ i <= Len(a) /\ ord(a[i]) < ord(b[i])

\* sorted(d): the entries of d in ascending order of key
InsertAsc(sorted, e) ==
    LET n == Cardinality({ i \in 1..Len(sorted) : ~StrLess(e.key, sorted[i].key) })
    IN  SubSeq(sorted, 1, n) \o <<e>> \o SubSeq(sorted, n + 1, Len(sorted))

RECURSIVE sorted_keys(_)
sorted_keys(d) ==
    IF d = << >> THEN << >>
    ELSE InsertAsc(sorted_keys(SubSeq(d, 1, Len(d) - 1)), d[Len(d)])

\* l[:n]
Take(l, n) == SubSeq(l, 1, IF Len(l) < n THEN Len(l) ELSE n)

---------------------------------------------------------------------------
(* The database and its file format *)

\* default_json()
default_json ==
    [mark |-> << >>, count |-> << >>, ignore |-> << >>, time |-> << >>]

NoFile == [exists |-> FALSE, text |-> << >>]

\* json.dumps(data): the four top-level members in the order of the dict
dumps(d) ==
    << [name |-> "mark",   body |-> d.mark],
       [name |-> "count",  body |-> d.count],
       [name |-> "ignore", body |-> d.ignore],
       [name |-> "time",   body |-> d.time] >>

\* A text is a complete JSON document iff it holds all four members.
Parsable(text) == Len(text) = 4

Member(text, n) == text[CHOOSE i \in 1..Len(text) : text[i].name = n].body

\* json.load(fin)
loads(text) ==
    [mark   |-> Member(text, "mark"),
     count  |-> Member(text, "count"),
     ignore |-> Member(text, "ignore"),
     time   |-> Member(text, "time")]

\* load_data that creates the defaultdict and forgets to copy the counts
load_data_drops_count(f) ==
    IF ~f.exists THEN default_json
    ELSE [loads(f.text) EXCEPT !.count = << >>]

\* load_data(filename) for a missing file or a well-formed one; the count
\* member is copied key by key into a defaultdict(float).
load_data(f) ==
    IF ~f.exists THEN default_json
    ELSE LET d == loads(f.text)
         IN  [d EXCEPT !.count =
                 [i \in 1..Len(d.count) |->
                     [key |-> d.count[i].key, val |-> d.count[i].val]]]

---------------------------------------------------------------------------
(* Frecency model *)

\* A visit recording without decay
discount_counts_none(d) == d

\* discount_counts(data)
discount_counts(d) ==
    [d EXCEPT !.count =
        [i \in 1..Len(d.count) |->
            [key |-> d.count[i].key, val |-> DISCOUNT_FACTOR(d.count[i].val)]]]

\* Eviction that also drops a directory visited exactly MAX_AGE ago
remove_old_directories_ge(d, now) ==
    LET deletion_set == { d.time[i].key : i \in
                            { j \in 1..Len(d.time) : now - d.time[j].val >= MAX_AGE } }
    IN  [d EXCEPT !.time  = SelectSeq(d.time,  LAMBDA e : e.key \notin deletion_set),
                  !.count = SelectSeq(d.count, LAMBDA e : e.key \notin deletion_set)]

\* Eviction that also forgets the marks that point at an evicted directory
remove_old_directories_and_marks(d, now) ==
    LET deletion_set == { d.time[i].key : i \in
                            { j \in 1..Len(d.time) : now - d.time[j].val > MAX_AGE } }
    IN  [d EXCEPT !.time  = SelectSeq(d.time,  LAMBDA e : e.key \notin deletion_set),
                  !.count = SelectSeq(d.count, LAMBDA e : e.key \notin deletion_set),
                  !.mark  = SelectSeq(d.mark,  LAMBDA e : e.val \notin deletion_set)]

\* remove_old_directories(data) with now = time.time()
remove_old_directories(d, now) ==
    LET deletion_set == { d.time[i].key : i \in
                            { j \in 1..Len(d.time) : now - d.time[j].val > MAX_AGE } }
    IN  [d EXCEPT !.time  = SelectSeq(d.time,  LAMBDA e : e.key \notin deletion_set),
                  !.count = SelectSeq(d.count, LAMBDA e : e.key \notin deletion_set)]

\* data["count"][args.add] += 1 on a defaultdict(float)
increase_count(d, dir) ==
    [d EXCEPT !.count =
        Put(d.count, dir, (IF Has(d.count, dir) THEN Get(d.count, dir) ELSE 0) + Scale)]

\* A visit that decays the counts before it increments the visited one
record_visit_decay_first(d, dir, now) ==
    LET d1 == increase_count(discount_counts(d), dir)
    IN  [d1 EXCEPT !.time = Put(d1.time, dir, now)]

\* main(), the branch that records a visit, lines 235-238: increment, the
\* time of the visit (now = time.time() of line 237), decay.  The call of
\* remove_old_directories (line 239) reads the clock again and is a step
\* of its own.
record_visit(d, dir, now) ==
    LET d1 == increase_count(d, dir)
        d2 == [d1 EXCEPT !.time = Put(d1.time, dir, now)]
    IN  discount_counts(d2)

---------------------------------------------------------------------------
(* Mark and ignore registry.  Each process_* operator yields the outcome   *)
(* of the branch: the database, the value returned to main (None when      *)
(* nothing is resolved), the lines printed to sys.stdout, and whether the  *)
(* branch left through sys.exit(1).                                        *)

Outcome(d, ret, lines, exited) ==
    [data |-> d, ret |-> ret, lines |-> lines, exited |-> exited]

\* process_mark whose delete branch leaves the mark in place
process_mark_no_delete(a, d, current_directory) ==
    IF a.delete
    THEN Outcome(d, None, << >>, FALSE)
    ELSE Outcome([d EXCEPT !.mark = Put(d.mark, a.mark, current_directory)],
                 None, << >>, FALSE)

\* process_mark(args, data, current_directory)
process_mark(a, d, current_directory) ==
    IF a.delete
    THEN Outcome([d EXCEPT !.mark = Pop(d.mark, a.mark)], None, << >>, FALSE)
    ELSE Outcome([d EXCEPT !.mark = Put(d.mark, a.mark, current_directory)],
                 None, << >>, FALSE)

\* process_ignore that leaves the visit record of the ignored directory
process_ignore_keeps_record(a, d, current_directory) ==
    IF a.delete
    THEN Outcome([d EXCEPT !.ignore = Pop(d.ignore, current_directory)],
                 None, << >>, FALSE)
    ELSE Outcome([d EXCEPT !.ignore = Put(d.ignore, current_directory, 1)],
                 None, << >>, FALSE)

\* An ignore that forgets the frequency and keeps the last visit
process_ignore_keeps_time(a, d, current_directory) ==
    IF a.delete
    THEN Outcome([d EXCEPT !.ignore = Pop(d.ignore, current_directory)],
                 None, << >>, FALSE)
    ELSE Outcome([d EXCEPT !.ignore = Put(d.ignore, current_directory, 1),
                           !.count  = Pop(d.count, current_directory)],
                 None, << >>, FALSE)

\* process_ignore(args, data, current_directory)
process_ignore(a, d, current_directory) ==
    IF a.delete
    THEN Outcome([d EXCEPT !.ignore = Pop(d.ignore, current_directory)],
                 None, << >>, FALSE)
    ELSE Outcome([d EXCEPT !.ignore = Put(d.ignore, current_directory, 1),
                           !.time   = Pop(d.time, current_directory),
                           !.count  = Pop(d.count, current_directory)],
                 None, << >>, FALSE)

\* mark_prefix without the startswith test: every mark is listed
mark_prefix_all(mark, marks) ==
    [i \in 1..Len(marks) |->
        [kind |-> "mark", key |-> marks[i].key, val |-> marks[i].val]]

\* mark_prefix(mark, marks): one line per mark whose key starts with mark
mark_prefix(mark, marks) ==
    LET hits == SelectSeq(marks, LAMBDA e : startswith(e.key, mark))
    IN  [i \in 1..Len(hits) |->
            [kind |-> "mark", key |-> hits[i].key, val |-> hits[i].val]]

\* process_jump(args, data, current_directory)
process_jump(a, d) ==
    IF Has(d.mark, a.jump)
    THEN Outcome(d, Get(d.mark, a.jump), << >>, FALSE)
    ELSE LET possible_marks == mark_prefix(a.jump, d.mark)
         IN  Outcome(d, None,
                 <<[kind |-> "Mark does not exist.", key |-> a.jump, val |-> None]>>
                 \o (IF possible_marks # << >>
                     THEN <<[kind |-> "Did you mean one of these marks?",
                             key |-> None, val |-> None]>>
                          \o possible_marks
                          \o <<[kind |-> "", key |-> None, val |-> None]>>
                     ELSE << >>),
                 FALSE)

---------------------------------------------------------------------------
(* Interactive menu *)

Line(kind, key, val) == [kind |-> kind, key |-> key, val |-> val]

\* A menu that lists the recent directories before the frequent ones
print_menu_recent_first(d) ==
    LET frequent == Take(SortedDesc(d.count), MAX_CHOICES)
        recent   == Take(SortedDesc(d.time), MAX_CHOICES)
        entries  == recent \o frequent
    IN  [i \in 1..Len(entries) |-> [key |-> str(i - 1), val |-> entries[i].key]]

\* print_menu(data): the options dictionary; the menu itself goes to stderr.
\* The second loop continues the numbering of the first.
print_menu(d) ==
    LET frequent == Take(SortedDesc(d.count), MAX_CHOICES)
        recent   == Take(SortedDesc(d.time), MAX_CHOICES)
        entries  == frequent \o recent
    IN  [i \in 1..Len(entries) |-> [key |-> str(i - 1), val |-> entries[i].key]]

\* handle_selection(selection, options, data): <<returned value, stdout lines>>
handle_selection(sel, options, d) ==
    IF Has(options, sel)
    THEN [ret |-> Get(options, sel), lines |-> << >>]
    ELSE IF sel = "i"
    THEN [ret |-> None,
          lines |-> <<Line("Ignored directories:", None, None)>>
                    \o [i \in 1..Len(d.ignore) |->
                           Line("ignored", d.ignore[i].key, None)]]
    ELSE IF sel = "m"
    THEN [ret |-> None,
          lines |-> <<Line("Marked directories: ", None, None)>>
                    \o [i \in 1..Len(d.mark) |->
                           Line("mark", sorted_keys(d.mark)[i].key,
                                        sorted_keys(d.mark)[i].val)]]
    ELSE [ret |-> None, lines |-> << >>]

\* input() at the end of standard input: no line is read.  A line that
\* input() returns never holds a newline, so the newline stands for it.
EOF == "\n"

\* main(), the menu branch (lines 240-245).  input() raises EOFError at
\* the end of standard input and the process ends with a traceback before
\* write_data.
process_menu(d, sel) ==
    IF sel = EOF
    THEN Outcome(d, None, << >>, TRUE)
    ELSE LET r == handle_selection(sel, print_menu(d), d)
         IN  Outcome(d, r.ret, r.lines, FALSE)

---------------------------------------------------------------------------
(* Search *)

\* is_directory_match(targets, directory)
is_directory_match(targets, directory) ==
    \A i \in 1..Len(targets) : IsSubstring(targets[i], directory)

\* The loop of process_directory: the entries that match, in loop order;
\* the loop returns at the first of them.
matches(entries, targets) ==
    SelectSeq(entries, LAMBDA e : is_directory_match(targets, e.key))

\* process_directory(directory, data)
process_directory(directory, d) ==
    IF Len(directory) = 1
    THEN Outcome(d, directory[1], << >>, FALSE)
    ELSE IF directory[1] \notin {<<"f">>, <<"r">>}
    THEN Outcome(d, None, << >>, TRUE)
    ELSE LET sort_type == IF directory[1] = <<"f">> THEN d.count ELSE d.time
             targets   == SubSeq(directory, 2, Len(directory))
             hits      == matches(SortedDesc(sort_type), targets)
         IN  IF hits # << >>
             THEN Outcome(d, hits[1].key, << >>, FALSE)
             ELSE Outcome(d, None,
                          <<Line("Could not find a directory that matches", None, None)>>,
                          TRUE)

---------------------------------------------------------------------------
(* main(): the branch chain between load_data and write_data *)

\* remove_old_directories raises KeyError when a stale directory of the
\* time map has no entry in the count map (del data["count"][key]).
stale_without_count(d, now) ==
    \E i \in 1..Len(d.time) :
        /\ now - d.time[i].val > MAX_AGE
        /\ ~Has(d.count, d.time[i].key)

\* A branch chain that looks at the jump request first
branch_of_jump_first(a, d) ==
    IF Truthy(a.jump) THEN "jump"
    ELSE IF Truthy(a.mark) THEN "mark"
    ELSE IF a.ignore THEN "ignore"
    ELSE IF Truthy(a.add) /\ ~Has(d.ignore, a.add) THEN "add"
    ELSE IF a.directory = << >> THEN "menu"
    ELSE "search"

\* A branch chain that records the visit of an ignored directory too
branch_of_adds_ignored(a, d) ==
    IF Truthy(a.mark) THEN "mark"
    ELSE IF a.ignore THEN "ignore"
    ELSE IF Truthy(a.jump) THEN "jump"
    ELSE IF Truthy(a.add) THEN "add"
    ELSE IF a.directory = << >> THEN "menu"
    ELSE "search"

\* The branch of the if/elif chain of main() that the arguments select.
branch_of(a, d) ==
    IF Truthy(a.mark) THEN "mark"
    ELSE IF a.ignore THEN "ignore"
    ELSE IF Truthy(a.jump) THEN "jump"
    ELSE IF Truthy(a.add) /\ ~Has(d.ignore, a.add) THEN "add"
    ELSE IF a.directory = << >> THEN "menu"
    ELSE "search"

main_branch(a, d, os_cwd, sel, now) ==
    LET current_directory ==
            IF Truthy(a.current_directory) THEN a.current_directory ELSE os_cwd
        b == branch_of(a, d)
    IN  CASE b = "mark"   -> process_mark(a, d, current_directory)
          [] b = "ignore" -> process_ignore(a, d, current_directory)
          [] b = "jump"   -> process_jump(a, d)
          [] b = "add"    ->
                Outcome(record_visit(d, a.add, now), None, << >>, FALSE)
          [] b = "menu"   -> process_menu(d, sel)
          [] b = "search" -> process_directory(a.directory, d)

---------------------------------------------------------------------------
(* Inputs of an invocation: the command line, os.getcwd(), the menu reply *)

\* "/x" and "/xy" are visited; marks are set in "/x" and "/y".
dir_x == <<"/", "x">>
dir_xy == <<"/", "x", "y">>
dir_y == <<"/", "y">>
proj == <<"p", "r", "o", "j">>
proj1 == <<"p", "r", "o", "j", "1">>
proj2 == <<"p", "r", "o", "j", "2">>
proj3 == <<"p", "r", "o", "j", "3">>
unrelated == <<"u", "n", "r", "e", "l", "a", "t", "e", "d">>

Dirs == { dir_x, dir_xy }
MarkDirs == { dir_x, dir_y }
MarkNames == { proj1, proj2 }
JumpNames == MarkNames \cup { proj, proj3, unrelated }
Replies == { "0", "1", "2", "3", "i", "m", "q", EOF }
Searches ==
    { << dir_x >> }
    \cup { <<t, x>> : t \in { <<"f">>, <<"r">>, <<"b">> },
                      x \in { <<"x">>, <<"y">>, <<"y", "x">>, <<"z">> } }
    \cup { <<t, <<"y">>, <<"x">> >> : t \in { <<"f">>, <<"r">> } }

NoArgs ==
    [directory |-> << >>, add |-> None, current_directory |-> None,
     mark |-> None, delete |-> FALSE, ignore |-> FALSE, jump |-> None]

Invocation(a, os_cwd, sel) == [args |-> a, cwd |-> os_cwd, selection |-> sel]

DefaultCwd == dir_x

Invocations ==
    \* -m NAME, from either directory
    { Invocation([NoArgs EXCEPT !.mark = m], c, "")
        : m \in MarkNames, c \in MarkDirs }
    \* -m NAME -d
    \cup { Invocation([NoArgs EXCEPT !.mark = m, !.delete = TRUE], DefaultCwd, "")
        : m \in MarkNames }
    \* -i and -i -d, from either directory
    \cup { Invocation([NoArgs EXCEPT !.ignore = TRUE, !.delete = del], c, "")
        : del \in BOOLEAN, c \in Dirs }
    \* -i -c DIR
    \cup { Invocation([NoArgs EXCEPT !.ignore = TRUE,
                                     !.current_directory = dir_xy],
                      DefaultCwd, "") }
    \* -j NAME
    \cup { Invocation([NoArgs EXCEPT !.jump = j], DefaultCwd, "")
        : j \in JumpNames }
    \* -a DIR (the menu follows when DIR is ignored)
    \cup { Invocation([NoArgs EXCEPT !.add = d], DefaultCwd, sel)
        : d \in Dirs, sel \in { "0", "q" } }
    \* no argument: menu
    \cup { Invocation(NoArgs, DefaultCwd, sel) : sel \in Replies }
    \* positional arguments
    \cup { Invocation([NoArgs EXCEPT !.directory = q], DefaultCwd, "")
        : q \in Searches }
    \* several requests at once
    \cup { Invocation([NoArgs EXCEPT !.mark = proj1, !.ignore = TRUE,
                                     !.jump = proj2, !.add = dir_x,
                                     !.directory = << dir_x >>],
                      DefaultCwd, ""),
           Invocation([NoArgs EXCEPT !.ignore = TRUE, !.jump = proj1,
                                     !.add = dir_xy],
                      DefaultCwd, ""),
           Invocation([NoArgs EXCEPT !.jump = proj1, !.add = dir_x,
                                     !.directory = << dir_xy >>],
                      DefaultCwd, ""),
           Invocation([NoArgs EXCEPT !.add = dir_x,
                                     !.directory = << dir_xy >>],
                      DefaultCwd, "") }

\* The invocations of two sessions that run at the same time.
ConcInvocations ==
    { Invocation([NoArgs EXCEPT !.ignore = TRUE], dir_x, ""),
      Invocation([NoArgs EXCEPT !.add = dir_x], DefaultCwd, "0"),
      Invocation([NoArgs EXCEPT !.add = dir_xy], DefaultCwd, "0") }

\* time.time() never goes back: since the last reading it has advanced by
\* nothing or by MAX_AGE (the seconds pass at the second reading).
TickSteps == { 0, MAX_AGE }

\* Between the visits of two sessions the clock has advanced by nothing or
\* by a second more than MAX_AGE.
ConcTickSteps == { 0, MAX_AGE + 1 }

\* remove_old_directories reads time.time() again (line 173) a few
\* statements after line 237: nothing or a second after the last reading
\* of the clock, which another process may have taken in between.
AgainSteps == { 0, 1 }

\* Elapsed ticks of the clock
Ticks(t) == (t \div MAX_AGE) + (t % MAX_AGE)

---------------------------------------------------------------------------
(* The state machine *)

Start(n, f) ==
    /\ file = f
    /\ tmp = [s \in Sessions |-> NoFile]
    /\ clock = 0
    /\ budget = n
    /\ pc = [s \in Sessions |-> "idle"]
    /\ branch = [s \in Sessions |-> ""]
    /\ args = [s \in Sessions |-> NoArgs]
    /\ cwd = [s \in Sessions |-> DefaultCwd]
    /\ selection = [s \in Sessions |-> ""]
    /\ data = [s \in Sessions |-> default_json]
    /\ jump_directory = [s \in Sessions |-> None]
    /\ json_data = [s \in Sessions |-> << >>]
    /\ stdout = [s \in Sessions |-> << >>]
    /\ exit_code = [s \in Sessions |-> -1]
    /\ saves = [s \in Sessions |-> 0]

\* One session starts on no database file.
Init == Start(MaxInvocations, NoFile)

\* The database file after one recorded visit to "/x" at time 0
VisitedOnce ==
    [exists |-> TRUE,
     text   |-> dumps(remove_old_directories(record_visit(default_json, dir_x, 0), 0))]

\* Two sessions start on no database file, or on the file the first
\* recorded visit has left.
InitConc == \E f \in { NoFile, VisitedOnce } : Start(MaxConcInvocations, f)

\* What a session that starts navigate.py begins with.
Fresh(s) ==
    /\ pc[s] \in { "idle", "done" }
    /\ budget > 0
    /\ budget' = budget - 1
    /\ args' = [args EXCEPT ![s] = NoArgs]
    /\ cwd' = [cwd EXCEPT ![s] = DefaultCwd]
    /\ selection' = [selection EXCEPT ![s] = ""]
    /\ branch' = [branch EXCEPT ![s] = ""]
    /\ jump_directory' = [jump_directory EXCEPT ![s] = None]
    /\ json_data' = [json_data EXCEPT ![s] = << >>]
    /\ saves' = [saves EXCEPT ![s] = 0]

\* main(), line 214: parse_args leaves the program on -h (the usage on
\* stdout, status 0) and on a command line it does not accept (the usage
\* on stderr, status 2).
ParseExit(s) ==
    /\ Fresh(s)
    /\ \E help \in BOOLEAN :
          /\ stdout' = [stdout EXCEPT ![s] =
                           IF help THEN <<Line("usage", None, None)>> ELSE << >>]
          /\ exit_code' = [exit_code EXCEPT ![s] = IF help THEN 0 ELSE 2]
    /\ pc' = [pc EXCEPT ![s] = "done"]
    /\ data' = [data EXCEPT ![s] = default_json]
    /\ UNCHANGED <<file, tmp, clock>>

\* main(), lines 217-219: without LUMANN_DATA in the environment the
\* program prints a message on stdout and leaves before load_data.
NoDataDir(s) ==
    /\ Fresh(s)
    /\ stdout' = [stdout EXCEPT ![s] =
                     <<Line("Need to set LUMANN_DATA environment variable.",
                            None, None)>>]
    /\ exit_code' = [exit_code EXCEPT ![s] = 1]
    /\ pc' = [pc EXCEPT ![s] = "done"]
    /\ data' = [data EXCEPT ![s] = default_json]
    /\ UNCHANGED <<file, tmp, clock>>

\* A shell session starts navigate.py: load_data (lines 221-226).
\* json.load raises on a truncated document and the process dies with a
\* traceback.
Load(s) ==
    /\ Fresh(s)
    /\ stdout' = [stdout EXCEPT ![s] = << >>]
    /\ IF file.exists /\ ~Parsable(file.text)
       THEN /\ pc' = [pc EXCEPT ![s] = "done"]
            /\ exit_code' = [exit_code EXCEPT ![s] = 1]
            /\ data' = [data EXCEPT ![s] = default_json]
       ELSE /\ pc' = [pc EXCEPT ![s] = "loaded"]
            /\ exit_code' = [exit_code EXCEPT ![s] = -1]
            /\ data' = [data EXCEPT ![s] = load_data(file)]
    /\ UNCHANGED <<file, tmp, clock>>

\* main(), line 223: os.getcwd() is called in every invocation and raises
\* FileNotFoundError when the working directory no longer exists; the
\* process ends with a traceback before the branch chain.
GetcwdError(s) ==
    /\ pc[s] = "loaded"
    /\ pc' = [pc EXCEPT ![s] = "done"]
    /\ exit_code' = [exit_code EXCEPT ![s] = 1]
    /\ data' = [data EXCEPT ![s] = default_json]
    /\ UNCHANGED <<file, tmp, clock, budget, branch, args, cwd, selection,
                   jump_directory, json_data, stdout, saves>>

\* Where main() goes on after the branch chain: the branch that records a
\* visit has remove_old_directories (line 239) still to run.
after_branch(b) == IF b = "add" THEN "remove_old_directories" ELSE "write_data"

\* main(), lines 228-247: the branch chain, on the command line, the
\* working directory and the menu reply of this invocation.  Only the
\* branch that records a visit reads time.time() (line 237).  sys.exit or
\* an exception inside a branch ends the process before write_data.
Process(s, invocations, steps) ==
    /\ pc[s] = "loaded"
    /\ \E inv \in invocations, step \in steps :
          LET b   == branch_of(inv.args, data[s])
              now == clock + step
              o   == main_branch(inv.args, data[s], inv.cwd, inv.selection, now)
          IN  /\ step # 0 => b = "add" /\ Ticks(now) <= MaxTicks
              /\ clock' = now
              /\ args' = [args EXCEPT ![s] = inv.args]
              /\ cwd' = [cwd EXCEPT ![s] = inv.cwd]
              /\ selection' = [selection EXCEPT ![s] = inv.selection]
              /\ branch' = [branch EXCEPT ![s] = b]
              /\ data' = [data EXCEPT ![s] = IF o.exited THEN default_json ELSE o.data]
              /\ jump_directory' = [jump_directory EXCEPT ![s] = o.ret]
              /\ stdout' = [stdout EXCEPT ![s] = stdout[s] \o o.lines]
              /\ pc' = [pc EXCEPT ![s] = IF o.exited THEN "done" ELSE after_branch(b)]
              /\ exit_code' = [exit_code EXCEPT ![s] = IF o.exited THEN 1 ELSE -1]
    /\ UNCHANGED <<file, tmp, budget, json_data, saves>>

\* main(), line 239: remove_old_directories reads the clock for itself
\* (line 173) and deletes the stale directories; a stale directory without
\* a count raises KeyError (line 181) and ends the process.
RemoveOldDirectories(s) ==
    /\ pc[s] = "remove_old_directories"
    /\ \E again \in AgainSteps :
          LET later == clock + again
          IN  /\ Ticks(later) <= MaxTicks
              /\ clock' = later
              /\ IF stale_without_count(data[s], later)
                 THEN /\ pc' = [pc EXCEPT ![s] = "done"]
                      /\ exit_code' = [exit_code EXCEPT ![s] = 1]
                      /\ data' = [data EXCEPT ![s] = default_json]
                 ELSE /\ pc' = [pc EXCEPT ![s] = "write_data"]
                      /\ exit_code' = exit_code
                      /\ data' = [data EXCEPT ![s] =
                                     remove_old_directories(data[s], later)]
    /\ UNCHANGED <<file, tmp, budget, branch, args, cwd, selection,
                   jump_directory, json_data, stdout, saves>>

\* write_data line 185 and atomic_write line 36: serialise, create the
\* temporary file (empty) next to the database file.  The command line is
\* not read again after the branch chain.
CreateTemp(s) ==
    /\ pc[s] = "write_data"
    /\ json_data' = [json_data EXCEPT ![s] = dumps(data[s])]
    /\ tmp' = [tmp EXCEPT ![s] = [exists |-> TRUE, text |-> << >>]]
    /\ saves' = [saves EXCEPT ![s] = saves[s] + 1]
    /\ pc' = [pc EXCEPT ![s] = "write"]
    /\ args' = [args EXCEPT ![s] = NoArgs]
    /\ cwd' = [cwd EXCEPT ![s] = DefaultCwd]
    /\ selection' = [selection EXCEPT ![s] = ""]
    /\ UNCHANGED <<file, clock, budget, branch, data,
                   jump_directory, stdout, exit_code>>

\* atomic_write line 36 stands before the try: when NamedTemporaryFile
\* raises (the directory of the database is missing or not writable) the
\* exception is not caught, no temporary file exists and the process ends
\* with a traceback before anything is printed.
CreateTempError(s) ==
    /\ pc[s] = "write_data"
    /\ saves' = [saves EXCEPT ![s] = saves[s] + 1]
    /\ pc' = [pc EXCEPT ![s] = "done"]
    /\ exit_code' = [exit_code EXCEPT ![s] = 1]
    /\ args' = [args EXCEPT ![s] = NoArgs]
    /\ cwd' = [cwd EXCEPT ![s] = DefaultCwd]
    /\ selection' = [selection EXCEPT ![s] = ""]
    /\ data' = [data EXCEPT ![s] = default_json]
    /\ UNCHANGED <<file, tmp, clock, budget, branch, jump_directory,
                   json_data, stdout>>

\* atomic_write lines 38-41: the text reaches the temporary file in two
\* pieces; after the second it is flushed and synced.
WriteTemp(s) ==
    /\ pc[s] = "write"
    /\ LET n == IF tmp[s].text = << >> THEN Len(json_data[s]) \div 2
                ELSE Len(json_data[s])
       IN  /\ tmp' = [tmp EXCEPT ![s].text = SubSeq(json_data[s], 1, n)]
           /\ pc' = [pc EXCEPT ![s] =
                        IF n = Len(json_data[s]) THEN "replace" ELSE "write"]
    /\ UNCHANGED <<file, clock, budget, branch, args, cwd, selection, data,
                   jump_directory, json_data, stdout, exit_code, saves>>

\* os.replace inside the with block, while the text is being written
replace_while_writing(position) == TRUE

\* os.replace comes after the with block: the whole text is written,
\* flushed and synced (position "replace"), never while it is being written.
replace_ready(position) == position = "replace"

\* A rename that does not overwrite an existing destination
rename_keeps_existing(src, dst) == IF dst.exists THEN dst ELSE src

\* os.replace(src, dst): the file found at dst afterwards; an existing
\* destination is overwritten.
os_replace(src, dst) == src

\* atomic_write line 42: os.replace(temp_file.name, output_file)
Replace(s) ==
    /\ pc[s] \in { "write", "replace" }
    /\ replace_ready(pc[s])
    /\ file' = os_replace(tmp[s], file)
    /\ tmp' = [tmp EXCEPT ![s] = NoFile]
    /\ pc' = [pc EXCEPT ![s] = "emit"]
    /\ UNCHANGED <<clock, budget, branch, args, cwd, selection, data,
                   jump_directory, json_data, stdout, exit_code, saves>>

\* atomic_write lines 44-45: an I/O error while writing or replacing, or
\* an interrupt (the except is bare), is logged and swallowed; the
\* temporary file is left behind.
WriteError(s) ==
    /\ pc[s] \in { "write", "replace" }
    /\ pc' = [pc EXCEPT ![s] = "emit"]
    /\ UNCHANGED <<file, tmp, clock, budget, branch, args, cwd, selection, data,
                   jump_directory, json_data, stdout, exit_code, saves>>

\* main(), lines 251-254; the memory of the process is gone when it exits.
Emit(s) ==
    /\ pc[s] = "emit"
    /\ IF Truthy(jump_directory[s])
       THEN /\ stdout' = [stdout EXCEPT ![s] =
                             Append(@, Line("path", None, jump_directory[s]))]
            /\ exit_code' = [exit_code EXCEPT ![s] = 0]
       ELSE /\ stdout' = stdout
            /\ exit_code' = [exit_code EXCEPT ![s] = 1]
    /\ pc' = [pc EXCEPT ![s] = "done"]
    /\ data' = [data EXCEPT ![s] = default_json]
    /\ json_data' = [json_data EXCEPT ![s] = << >>]
    /\ UNCHANGED <<file, tmp, clock, budget, branch, args, cwd, selection,
                   jump_directory, saves>>

\* The positions of a running process
Running ==
    { "loaded", "remove_old_directories", "write_data", "write", "replace",
      "emit" }

\* What a process may have printed when a signal ends it in the middle of
\* a sequence of print calls: any number of the first of them.
Prefixes(lines) == { SubSeq(lines, 1, n) : n \in 0..Len(lines) }

\* The print calls of a process before load_data: the usage of -h
\* (line 214) or the message of lines 217-219.
StartPrinting ==
    Prefixes(<<Line("usage", None, None)>>)
    \cup Prefixes(<<Line("Need to set LUMANN_DATA environment variable.",
                         None, None)>>)

\* The print calls of a process between its position and its next one:
\* those before load_data when it starts, those of the branch chain on
\* any command line (lines 228-247), the path of line 252, nowhere else.
Printing(s, invocations) ==
    IF pc[s] \in { "idle", "done" }
    THEN StartPrinting
    ELSE IF pc[s] = "loaded"
    THEN UNION { Prefixes(main_branch(inv.args, data[s], inv.cwd,
                                      inv.selection, clock).lines)
                   : inv \in invocations }
    ELSE IF pc[s] = "emit" /\ Truthy(jump_directory[s])
    THEN Prefixes(<<Line("path", None, jump_directory[s])>>)
    ELSE { << >> }

\* A signal ends the process with status code: as it starts, or at one of
\* the positions, before or after any print call that comes next, with
\* printed the lines of these calls that it has run.  navigate.py never
\* flushes sys.stdout: with lost, what it has printed is still in
\* python's buffer and never comes out.
Signal(s, positions, code, printed, lost) ==
    /\ \/ /\ Fresh(s)
          /\ stdout' = [stdout EXCEPT ![s] = IF lost THEN << >> ELSE printed]
       \/ /\ pc[s] \in positions
          /\ stdout' = [stdout EXCEPT ![s] =
                           IF lost THEN << >> ELSE @ \o printed]
          /\ json_data' = [json_data EXCEPT ![s] = << >>]
          /\ UNCHANGED <<budget, branch, args, cwd, selection,
                         jump_directory, saves>>
    /\ pc' = [pc EXCEPT ![s] = "done"]
    /\ exit_code' = [exit_code EXCEPT ![s] = code]
    /\ data' = [data EXCEPT ![s] = default_json]
    /\ UNCHANGED <<file, tmp, clock>>

\* The process is killed (SIGKILL, or the machine stops) at any point:
\* what it has printed is lost when python still holds it in its buffer
\* (stdout a pipe) and is out when stdout is unbuffered or a terminal.
Crash(s, printed) ==
    \E buffered \in BOOLEAN : Signal(s, Running, 137, printed, buffered)

\* Where KeyboardInterrupt is not caught: everywhere but inside the try
\* block of atomic_write (lines 37-45).  With the temporary file created
\* and still empty the process may be in NamedTemporaryFile or between
\* line 36 and the try, where nothing catches it.
Uncaught(s) ==
    (Running \ { "write", "replace" })
    \cup (IF tmp[s].exists /\ tmp[s].text = << >> THEN { "write" } ELSE { })

\* The process is interrupted (SIGINT) outside the try block of
\* atomic_write, at input() for one: KeyboardInterrupt is not caught,
\* python flushes stdout and ends by the signal; a temporary file that
\* NamedTemporaryFile has created stays behind, empty.  Inside the try
\* block the bare except catches it (WriteError).  While the interpreter
\* is starting, before the first line of navigate.py, python gives up
\* with status 1.
Interrupt(s, printed) ==
    \/ Signal(s, Uncaught(s), 130, printed, FALSE)
    \/ /\ printed = << >>
       /\ Signal(s, { }, 1, printed, FALSE)

\* A signal from outside, at any moment
Signalled(s, invocations) ==
    \E printed \in Printing(s, invocations) :
        \/ Crash(s, printed)
        \/ Interrupt(s, printed)

Step(s, invocations, steps) ==
    \/ ParseExit(s)
    \/ NoDataDir(s)
    \/ Load(s)
    \/ GetcwdError(s)
    \/ Process(s, invocations, steps)
    \/ RemoveOldDirectories(s)
    \/ CreateTemp(s)
    \/ CreateTempError(s)
    \/ WriteTemp(s)
    \/ Replace(s)
    \/ WriteError(s)
    \/ Emit(s)
    \/ Signalled(s, invocations)

\* One shell session, every command line.
Next == Step(1, Invocations, TickSteps)

Spec == Init /\ [][Next]_vars

\* Two shell sessions on the same database file.
NextConc == \E s \in Sessions : Step(s, ConcInvocations, ConcTickSteps)

SpecConc == InitConc /\ [][NextConc]_vars

---------------------------------------------------------------------------
(* The menu on databases of up to MaxMenuDirs directories *)

MenuLetters ==
    <<"a", "b", "c", "d", "e", "f", "g", "h", "i", "j", "k", "l", "m", "n",
      "o", "p">>

\* The k-th directory recorded
MenuDir(k) == <<"/", MenuLetters[k]>>

\* How frequencies and last visits relate to the order of first visit:
\* rising with it, falling with it, or with ties.
Rankings == { "rising", "falling", "ties" }

MenuCount(ranking, k, n) ==
    CASE ranking = "rising"  -> k
      [] ranking = "falling" -> n - k + 1
      [] ranking = "ties"    -> (k % 3) + 1

MenuTime(ranking, k, n) ==
    CASE ranking = "rising"  -> n - k
      [] ranking = "falling" -> k \div 2
      [] ranking = "ties"    -> k

\* A database of n directories, none ignored, in hundredths of a visit
\* and seconds.
MenuDatabase(n, ranking) ==
    [default_json EXCEPT
        !.count = [k \in 1..n |->
                      [key |-> MenuDir(k),
                       val |-> MenuCount(ranking, k, n) * (Scale \div 100)]],
        !.time  = [k \in 1..n |->
                      [key |-> MenuDir(k), val |-> MenuTime(ranking, k, n)]]]

\* input(): an index of either list, an index past them, a command
\* character, anything else
MenuReplies ==
    { str(k) : k \in 0..(2 * MAX_CHOICES - 1) } \cup { "20", "-1", "i", "m", "q", "", EOF }

\* navigate.py without arguments
MenuInvocations == { Invocation(NoArgs, DefaultCwd, sel) : sel \in MenuReplies }

\* A session has loaded a database of up to MaxMenuDirs directories.
InitMenu ==
    \E n \in 0..MaxMenuDirs, ranking \in Rankings :
        /\ file = [exists |-> TRUE, text |-> dumps(MenuDatabase(n, ranking))]
        /\ tmp = [s \in Sessions |-> NoFile]
        /\ clock = MaxMenuDirs
        /\ budget = 0
        /\ pc = [s \in Sessions |-> IF s = 1 THEN "loaded" ELSE "idle"]
        /\ branch = [s \in Sessions |-> ""]
        /\ args = [s \in Sessions |-> NoArgs]
        /\ cwd = [s \in Sessions |-> DefaultCwd]
        /\ selection = [s \in Sessions |-> ""]
        /\ data = [s \in Sessions |->
                      IF s = 1 THEN load_data(file) ELSE default_json]
        /\ jump_directory = [s \in Sessions |-> None]
        /\ json_data = [s \in Sessions |-> << >>]
        /\ stdout = [s \in Sessions |-> << >>]
        /\ exit_code = [s \in Sessions |-> -1]
        /\ saves = [s \in Sessions |-> 0]

\* The menu branch of main() on the loaded database
NextMenu == Process(1, MenuInvocations, { 0 })

SpecMenu == InitMenu /\ [][NextMenu]_vars

---------------------------------------------------------------------------
(* Claims *)

\* The database stored in a complete text
Stored(text) == loads(text)

Exclusive(d) ==
    Keys(d.ignore) \cap (Keys(d.count) \cup Keys(d.time)) = {}

\* C1: no directory is at once a key of the ignore set and a key of the
\* count map or of the time map: in the database an invocation holds in
\* memory, in the text it hands to the save step, and in the database file,
\* also when the invocations of two sessions interleave.
C1_IgnoreExclusive ==
    /\ \A s \in Sessions :
          /\ Exclusive(data[s])
          /\ json_data[s] # << >> => Exclusive(Stored(json_data[s]))
    /\ file.exists /\ Parsable(file.text) => Exclusive(Stored(file.text))

\* C1 witness: one session has saved a database that ignores a directory
\* while the other, which loaded before that save, has recorded a visit to
\* the same directory and is about to save.
C1_Witness ==
    \E s \in Sessions :
        /\ pc[s] = "replace"
        /\ branch[s] = "add"
        /\ file.exists
        /\ Keys(Stored(file.text).ignore) \cap Keys(data[s].count) # {}

\* C2: an invocation that has gone through the branch chain and resolves
\* a directory prints exactly that path on stdout and exits 0; one that
\* resolves none prints nothing on stdout and exits non-zero.
C2_ExitContract ==
    \A s \in Sessions :
        pc[s] = "done" /\ branch[s] # "" /\ exit_code[s] \in { 0, 1 } =>
            IF Truthy(jump_directory[s])
            THEN /\ stdout[s] = <<Line("path", None, jump_directory[s])>>
                 /\ exit_code[s] = 0
            ELSE /\ stdout[s] = << >>
                 /\ exit_code[s] = 1

\* The database file is missing or holds a complete text.
FileComplete == file.exists => Parsable(file.text)

\* The database file changes only to the complete text of one save step.
FileStep ==
    \/ file' = file
    \/ \E s \in Sessions :
          /\ json_data[s] = dumps(data[s])
          /\ file' = [exists |-> TRUE, text |-> json_data[s]]

\* A reader (load_data of any session) gets a whole database; a session that
\* is killed or fails inside atomic_write leaves the database file as it was.
ReaderStep ==
    \A s \in Sessions :
        /\ pc[s] \in { "idle", "done" } /\ pc'[s] \notin { "idle", "done" }
              => pc'[s] = "loaded"
                 /\ data'[s] = IF file.exists THEN Stored(file.text) ELSE default_json
        /\ pc[s] \in { "write", "replace" } /\ pc'[s] = "done" => file' = file
        /\ pc[s] = "write" /\ pc'[s] = "emit" => file' = file

\* C3: the save step is all or nothing: the database file always holds a
\* complete text, the previous one or the new one, at every step of
\* atomic_write, a crash or an I/O error included, and a concurrent reader
\* never loads a partial database.
C3_AtomicSave == []FileComplete /\ [][FileStep /\ ReaderStep]_vars

\* C3 witness: a session was killed after its temporary file was completely
\* written and before the rename; the database file still holds the
\* complete previous text, which differs from the new one.
C3_Witness ==
    \E s \in Sessions :
        /\ pc[s] = "done"
        /\ exit_code[s] = 137
        /\ tmp[s].exists
        /\ Parsable(tmp[s].text)
        /\ file.exists
        /\ Parsable(file.text)
        /\ file.text # tmp[s].text

---------------------------------------------------------------------------

\* Session s runs the branch chain in this step and takes branch b.
Runs(s, b) == pc[s] = "loaded" /\ pc'[s] # "loaded" /\ branch'[s] = b

\* Session s runs remove_old_directories to its end in this step.
Evicts(s) == pc[s] = "remove_old_directories" /\ pc'[s] = "write_data"

\* The count the second of two consecutive visits leaves, for a given value
\* of the count after the two visits in units of 1/10000.
TwoVisits(tenthousandths) ==
    \A s \in Sessions : \A D \in Dirs :
        Runs(s, "add") /\ args'[s].add = D /\ pc'[s] = "remove_old_directories" =>
            \* first visit: no record of D
            /\ ~Has(data[s].count, D) =>
                  Get(data'[s].count, D) = 99 * (Scale \div 100)
            \* second visit: D was visited once, and nothing since
            /\ Has(data[s].count, D) /\ Get(data[s].count, D) = 99 * (Scale \div 100) =>
                  Get(data'[s].count, D) = tenthousandths * (Scale \div 10000)

\* C4 (as stated): two consecutive recorded visits to a directory without a
\* record, and no other visit in between, leave frequency 1.99.
C4_TwoVisitsOriginal == [][TwoVisits(19900)]_vars

\* C4 (amended): two consecutive recorded visits to a directory without a
\* record, and no other visit in between, leave frequency
\* (1*0.99 + 1)*0.99 = 1.9701: the second visit decays the count it has just
\* incremented.
C4_TwoVisits == [][TwoVisits(19701)]_vars

\* C4 witness: the second consecutive visit has been recorded.
C4_Witness ==
    \E s \in Sessions : \E D \in Dirs :
        /\ pc[s] = "write_data"
        /\ branch[s] = "add"
        /\ args[s].add = D
        /\ Keys(data[s].count) = { D }
        /\ Get(data[s].count, D) = 19701 * (Scale \div 10000)

\* The time stored as the last visit of the directory session s has just
\* recorded.
Stamp(s) == Get(data[s].time, args[s].add)

\* Right after session s has recorded a visit and run the eviction: every
\* directory last visited more than MAX_AGE before now is in neither map,
\* and every directory last visited at most MAX_AGE before now, the
\* visited one included, is in both.
EvictedRelativeTo(s, now) ==
    \A d \in Keys(data[s].time) :
        IF now - Get(data[s].time, d) > MAX_AGE
        THEN ~Has(data'[s].time, d) /\ ~Has(data'[s].count, d)
        ELSE /\ Has(data'[s].time, d) /\ Has(data'[s].count, d)
             /\ Get(data'[s].time, d) = Get(data[s].time, d)

\* C5 (as stated): right after a visit is recorded at time now, the time
\* stored as its last visit, every directory last visited more than
\* MAX_AGE before now is in neither map and every directory last visited
\* at most MAX_AGE before now, the visited one included, is in both.
EvictionAtStampStep ==
    \A s \in Sessions :
        Evicts(s) =>
            /\ Has(data[s].time, args[s].add)
            /\ EvictedRelativeTo(s, Stamp(s))

C5_EvictionOriginal == [][EvictionAtStampStep]_vars

\* C5 (amended): right after a visit is recorded, with now the time the
\* eviction step reads, which is at or after the time stored as the last
\* visit, every directory last visited more than MAX_AGE before now is in
\* neither map and every directory last visited at most MAX_AGE before
\* now, the visited one included, is in both.
EvictionStep ==
    \A s \in Sessions :
        Evicts(s) =>
            /\ Has(data[s].time, args[s].add)
            /\ Stamp(s) <= clock'
            /\ Has(data'[s].time, args[s].add)
            /\ EvictedRelativeTo(s, clock')

C5_Eviction == [][EvictionStep]_vars

\* C5 witness: a visit was recorded and the directory of the loaded file
\* that was last visited more than MAX_AGE ago is gone from both maps,
\* while the directory just visited is kept.
C5_Witness ==
    \E s \in Sessions :
        /\ pc[s] = "write_data"
        /\ branch[s] = "add"
        /\ file.exists
        /\ \E d \in Keys(Stored(file.text).time) :
              /\ clock - Get(Stored(file.text).time, d) > MAX_AGE
              /\ ~Has(data[s].time, d)
              /\ ~Has(data[s].count, d)
        /\ Len(data[s].time) = 1

\* The directories of map m whose path contains every term
Matching(m, terms) ==
    { d \in Keys(m) : \A i \in 1..Len(terms) : IsSubstring(terms[i], d) }

\* C6: a search with prefix f (r) resolves the first directory, in
\* descending order of frequency (last visit), that contains every term;
\* with no such directory it resolves nothing and exits non-zero.
SearchStep ==
    \A s \in Sessions :
        (/\ Runs(s, "search")
         /\ Len(args'[s].directory) > 1
         /\ args'[s].directory[1] \in { <<"f">>, <<"r">> }) =>
            LET m     == IF args'[s].directory[1] = <<"f">>
                         THEN data[s].count ELSE data[s].time
                terms == Tail(args'[s].directory)
                r     == jump_directory'[s]
            IN  IF Matching(m, terms) = {}
                THEN r = None /\ pc'[s] = "done" /\ exit_code'[s] = 1
                ELSE /\ pc'[s] = "write_data"
                     /\ r \in Matching(m, terms)
                     /\ \A d \in Matching(m, terms) :
                           \/ Get(m, d) < Get(m, r)
                           \/ Get(m, d) = Get(m, r) /\ IndexOf(m, r) <= IndexOf(m, d)

C6_Search == [][SearchStep]_vars

\* C6 witness: a search resolved a directory although another directory,
\* lower in the order, matches too; and the two orders disagree.
C6_Witness ==
    \E s \in Sessions :
        /\ pc[s] = "write_data"
        /\ branch[s] = "search"
        /\ Len(args[s].directory) > 1
        /\ Truthy(jump_directory[s])
        /\ Cardinality(Matching(data[s].count, Tail(args[s].directory))) = 2
        /\ SortedDesc(data[s].count)[1].key # SortedDesc(data[s].time)[1].key

\* The keys of the marks printed as suggestions, in the order printed
Suggested(lines) ==
    LET hits == SelectSeq(lines, LAMBDA l : l.kind = "mark")
    IN  [i \in 1..Len(hits) |-> hits[i].key]

Range(q) == { q[i] : i \in 1..Len(q) }

\* A jump request: a known name resolves to its target; an unknown name
\* resolves nothing and the suggestions are the marks related to the name
\* by Rel, in the order Before.
JumpStep(Rel(_, _), Before(_, _, _)) ==
    \A s \in Sessions :
        Runs(s, "jump") =>
            LET marks == data[s].mark
                name  == args'[s].jump
                sugg  == Suggested(stdout'[s])
            IN  IF Has(marks, name)
                THEN jump_directory'[s] = Get(marks, name) /\ sugg = << >>
                ELSE /\ jump_directory'[s] = None
                     /\ Range(sugg) = { k \in Keys(marks) : Rel(k, name) }
                     /\ \A i, j \in 1..Len(sugg) :
                           i < j => Before(marks, sugg[i], sugg[j])

NameIsPrefixOfRequest(k, name) == startswith(name, k)
RequestIsPrefixOfName(k, name) ==
    Len(name) <= Len(k) /\ \A i \in 1..Len(name) : k[i] = name[i]
SortedOrder(marks, a, b) == StrLess(a, b)
RegistryOrder(marks, a, b) == IndexOf(marks, a) < IndexOf(marks, b)

\* C7 (as stated): the suggestions for an unknown name are the marks whose
\* name is a prefix of the requested name, in sorted order of mark name.
C7_JumpOriginal == [][JumpStep(NameIsPrefixOfRequest, SortedOrder)]_vars

\* C7 (amended): the suggestions for an unknown name are the marks whose
\* name starts with the requested name (the requested name is a prefix of
\* the mark name), in the order of the mark registry (insertion order); a
\* known name resolves to its mark's target.
C7_Jump == [][JumpStep(RequestIsPrefixOfName, RegistryOrder)]_vars

\* C7 witness: an unknown name was requested and two marks were suggested,
\* in registry order, which is not the sorted order.
C7_Witness ==
    \E s \in Sessions :
        /\ pc[s] = "write_data"
        /\ branch[s] = "jump"
        /\ jump_directory[s] = None
        /\ Suggested(stdout[s]) = <<proj2, proj1>>

\* Session s has answered a jump request for name with the marks
\* proj1 -> /x and proj2 -> /y.
JumpedWithProjMarks(s, name) ==
    /\ pc[s] = "write_data"
    /\ branch[s] = "jump"
    /\ args[s].jump = name
    /\ Keys(data[s].mark) = { proj1, proj2 }
    /\ Get(data[s].mark, proj1) = dir_x
    /\ Get(data[s].mark, proj2) = dir_y

\* C8 (as stated): with marks proj1 -> /x and proj2 -> /y, a jump to proj3
\* resolves nothing and suggests proj1 and proj2; a jump to unrelated
\* resolves nothing and suggests nothing.
C8_ProjExampleOriginal ==
    \A s \in Sessions :
        /\ JumpedWithProjMarks(s, proj3) =>
              /\ jump_directory[s] = None
              /\ Range(Suggested(stdout[s])) = { proj1, proj2 }
        /\ JumpedWithProjMarks(s, unrelated) =>
              /\ jump_directory[s] = None
              /\ Suggested(stdout[s]) = << >>

\* C8 (amended): with marks proj1 -> /x and proj2 -> /y, a jump to proj3
\* resolves nothing and suggests nothing (no mark starts with proj3); a
\* jump to proj resolves nothing and suggests proj1 and proj2; a jump to
\* unrelated resolves nothing and suggests nothing.
C8_ProjExample ==
    \A s \in Sessions :
        /\ JumpedWithProjMarks(s, proj3) =>
              /\ jump_directory[s] = None
              /\ Suggested(stdout[s]) = << >>
        /\ JumpedWithProjMarks(s, proj) =>
              /\ jump_directory[s] = None
              /\ Range(Suggested(stdout[s])) = { proj1, proj2 }
        /\ JumpedWithProjMarks(s, unrelated) =>
              /\ jump_directory[s] = None
              /\ Suggested(stdout[s]) = << >>

\* C8 witness: the jump to proj3 was answered with the two marks set.
C8_Witness == \E s \in Sessions : JumpedWithProjMarks(s, proj3)

\* C9: every invocation that has loaded the database calls the save step
\* exactly once before it ends, whatever the outcome.
C9_SavedOnce ==
    \A s \in Sessions :
        pc[s] = "done" /\ branch[s] # "" /\ exit_code[s] \in { 0, 1 } =>
            saves[s] = 1


\* m2 is m1 with key k mapped to v, every other entry as it was
SetIn(m1, m2, k, v) ==
    /\ Keys(m2) = Keys(m1) \cup { k }
    /\ Get(m2, k) = v
    /\ \A j \in Keys(m1) \ { k } : Get(m2, j) = Get(m1, j)

\* m2 is m1 without key k, every other entry as it was
RemovedFrom(m1, m2, k) ==
    /\ Keys(m2) = Keys(m1) \ { k }
    /\ \A j \in Keys(m2) : Get(m2, j) = Get(m1, j)

\* The mutation that the command line a asks for, from database d1 to d2
Mutated(a, dir, d1, d2) ==
    IF Truthy(a.mark)
    THEN /\ IF a.delete
            THEN RemovedFrom(d1.mark, d2.mark, a.mark)
            ELSE SetIn(d1.mark, d2.mark, a.mark, dir)
         /\ d2.count = d1.count /\ d2.ignore = d1.ignore /\ d2.time = d1.time
    ELSE /\ d2.mark = d1.mark
         /\ IF a.delete
            THEN /\ RemovedFrom(d1.ignore, d2.ignore, dir)
                 /\ d2.count = d1.count /\ d2.time = d1.time
            ELSE /\ SetIn(d1.ignore, d2.ignore, dir, 1)
                 /\ RemovedFrom(d1.count, d2.count, dir)
                 /\ RemovedFrom(d1.time, d2.time, dir)

\* C10: a mutation-only invocation (mark set or remove, ignore or unignore)
\* applies its mutation to the loaded database, hands the mutated database
\* to the save step, which puts it in the database file, resolves no
\* directory, prints nothing on stdout and exits 1.  When the temporary
\* file cannot be created the invocation ends at once, also with status 1,
\* nothing printed and the database file as it was; a process that is
\* killed or interrupted ends with the status of the signal.
MutationOnlyStep ==
    \A s \in Sessions :
        /\ Runs(s, "mark") \/ Runs(s, "ignore") =>
              /\ pc'[s] = "write_data"
              /\ jump_directory'[s] = None
              /\ Mutated(args'[s],
                         IF Truthy(args'[s].current_directory)
                         THEN args'[s].current_directory ELSE cwd'[s],
                         data[s], data'[s])
        /\ branch[s] \in { "mark", "ignore" } =>
              /\ pc[s] = "write_data" /\ pc'[s] # "write_data" =>
                    \/ pc'[s] = "write" /\ Stored(json_data'[s]) = data[s]
                    \/ /\ pc'[s] = "done" /\ exit_code'[s] \in { 1, 130, 137 }
                       /\ stdout'[s] = << >> /\ file' = file
              /\ pc[s] = "replace" /\ pc'[s] = "emit" /\ file' # file =>
                    file'.exists /\ Stored(file'.text) = data[s]
              /\ pc[s] = "emit" /\ pc'[s] = "done" =>
                    /\ exit_code'[s] \in { 1, 130, 137 }
                    /\ stdout'[s] = << >> /\ saves'[s] = 1

C10_MutationOnly == [][MutationOnlyStep]_vars

\* C10 witness: a mutation-only invocation has ended with status 1 and the
\* database file holds a mark or an ignored directory.
C10_Witness ==
    \E s \in Sessions :
        /\ pc[s] = "done"
        /\ branch[s] \in { "mark", "ignore" }
        /\ exit_code[s] = 1
        /\ saves[s] = 1
        /\ file.exists
        /\ Stored(file.text).mark # << >> \/ Stored(file.text).ignore # << >>


\* Session s completes os.replace in this step.
Replaces(s) == pc[s] = "replace" /\ pc'[s] = "emit" /\ ~tmp'[s].exists

\* C11: an invocation that mutates nothing (jump, menu, search) and reaches
\* the save step leaves in the database file a database equal, in all four
\* collections, to the one it loaded; a missing file becomes the empty
\* database.
RoundTripStep ==
    \A s \in Sessions :
        /\ (Runs(s, "jump") \/ Runs(s, "menu") \/ Runs(s, "search"))
              /\ pc'[s] = "write_data" => data'[s] = data[s]
        /\ branch[s] \in { "jump", "menu", "search" } /\ Replaces(s) =>
              LET before == IF file.exists THEN Stored(file.text) ELSE default_json
                  after  == Stored(file'.text)
              IN  /\ file'.exists /\ Parsable(file'.text)
                  /\ after.mark = before.mark
                  /\ after.count = before.count
                  /\ after.ignore = before.ignore
                  /\ after.time = before.time

C11_RoundTrip == [][RoundTripStep]_vars

\* C11 witness: a jump, menu or search invocation has saved a database
\* that holds marks, counts, timestamps.
C11_Witness ==
    \E s \in Sessions :
        /\ pc[s] = "emit"
        /\ branch[s] \in { "jump", "menu", "search" }
        /\ ~tmp[s].exists
        /\ file.exists
        /\ file.text = json_data[s]
        /\ Stored(file.text).mark # << >>
        /\ Stored(file.text).count # << >>
        /\ Stored(file.text).time # << >>

\* C12: no merge: os.replace leaves in the database file exactly the
\* database of the invocation that performs it, whatever another
\* invocation has saved since this one loaded.
LastWriterStep ==
    \A s \in Sessions :
        Replaces(s) => file' = [exists |-> TRUE, text |-> dumps(data[s])]

C12_LastWriterWins == [][LastWriterStep]_vars

\* C12 witness: the lost update.  Both sessions have recorded a visit
\* and replaced the database file and neither has ended.  Nothing is
\* old enough to be evicted (the clock is at 0), yet the database of each
\* holds its own directory only: each has loaded the file before the
\* other replaced it.  The file is the database of one of them; the visit
\* of the other is in no file.
C12_Witness ==
    \E s, t \in Sessions :
        /\ s # t
        /\ \A u \in { s, t } :
              /\ branch[u] = "add"
              /\ pc[u] = "emit"
              /\ saves[u] = 1
              /\ ~tmp[u].exists
        /\ clock = 0
        /\ Keys(data[s].count) = { dir_x }
        /\ Keys(data[t].count) = { dir_xy }
        /\ file = [exists |-> TRUE, text |-> dumps(data[t])]
        /\ Keys(Stored(file.text).count) = { dir_xy }


\* C13: a mark stays mapped to its directory until a set or a remove of
\* that same name: no other branch (visit recording with its decay and
\* eviction, ignore, unignore, jump, menu, search) changes the mark
\* registry, in memory or in the file it saves, a mark request changes no
\* mark of another name, and visit recording leaves the ignore set alone.
MarkFrameStep ==
    \A s \in Sessions :
        /\ Evicts(s) =>
              data'[s].mark = data[s].mark /\ data'[s].ignore = data[s].ignore
        /\ pc[s] = "loaded" /\ pc'[s] \in { "write_data", "remove_old_directories" } =>
              /\ branch'[s] # "mark" => data'[s].mark = data[s].mark
              /\ branch'[s] = "mark" =>
                    \A k \in Keys(data[s].mark) \ { args'[s].mark } :
                        /\ Has(data'[s].mark, k)
                        /\ Get(data'[s].mark, k) = Get(data[s].mark, k)
              /\ branch'[s] = "add" => data'[s].ignore = data[s].ignore
        /\ Replaces(s) /\ branch[s] # "mark" =>
              Stored(file'.text).mark =
                  (IF file.exists THEN Stored(file.text).mark ELSE << >>)
        /\ Replaces(s) /\ branch[s] = "add" =>
              Stored(file'.text).ignore =
                  (IF file.exists THEN Stored(file.text).ignore ELSE << >>)

C13_MarkFrame == [][MarkFrameStep]_vars

\* C13 witness: a recorded visit has evicted the directory a mark points
\* at, and the mark is still there.
C13_Witness ==
    \E s \in Sessions :
        /\ pc[s] = "write_data"
        /\ branch[s] = "add"
        /\ file.exists
        /\ \E i \in 1..Len(data[s].mark) :
              /\ Has(Stored(file.text).time, data[s].mark[i].val)
              /\ ~Has(data[s].time, data[s].mark[i].val)
              /\ ~Has(data[s].count, data[s].mark[i].val)


\* The directories of the entries of a menu
Listed(options) == { options[i].val : i \in 1..Len(options) }

\* The directories the menu of database d offers in its two lists.
Offered(d) == Listed(print_menu(d))

\* Outcome o of a search resolves to no directory of the ignore set.
OutsideIgnore(o, ignore) == o.exited \/ ~Has(ignore, o.ret)

\* Session s holds a database that the branch chain reads or has just
\* written: the one load_data returned, the one the add branch has
\* changed, the one handed to write_data (which is kept as it is up to
\* the end of the process).
Holds(s) == pc[s] \in { "loaded", "remove_old_directories", "write_data" }

\* C14: in every reachable state no directory of the ignore set is an
\* entry of the menu's frequency or recency list, none is what a reply to
\* the menu resolves to, and none is the result of a multi-term search,
\* whether the search that has just run or any search that could run on
\* the database in memory.
C14_IgnoredNeverOffered ==
    \A s \in Sessions :
        /\ Holds(s) => Offered(data[s]) \cap Keys(data[s].ignore) = {}
        /\ pc[s] = "write_data" /\ branch[s] = "menu" /\ Truthy(jump_directory[s]) =>
              ~Has(data[s].ignore, jump_directory[s])
        /\ pc[s] = "write_data" /\ branch[s] = "search" /\ Len(args[s].directory) > 1 =>
              /\ Truthy(jump_directory[s])
              /\ ~Has(data[s].ignore, jump_directory[s])
        /\ \A q \in Searches :
              Holds(s) /\ Len(q) > 1 =>
                  OutsideIgnore(process_directory(q, data[s]), data[s].ignore)

\* C14 witness: a multi-term search has resolved to a directory while an
\* ignored directory contains every search term.
C14_Witness ==
    \E s \in Sessions :
        /\ pc[s] = "write_data"
        /\ branch[s] = "search"
        /\ Len(args[s].directory) > 1
        /\ Truthy(jump_directory[s])
        /\ \E i \in 1..Len(data[s].ignore) :
              is_directory_match(SubSeq(args[s].directory, 2, Len(args[s].directory)),
                                 data[s].ignore[i].key)


\* Session s has resolved directory r through the menu or a positional
\* search in this step.
Resolves(s, r) ==
    /\ Runs(s, "menu") \/ Runs(s, "search")
    /\ pc'[s] = "write_data"
    /\ jump_directory'[s] = r
    /\ Truthy(r)

\* C15: when the menu or a positional search resolves a directory that is
\* not in the ignore set, the same invocation records the visit before it
\* saves: the directory has a frequency, its last visit is the time of
\* the invocation, and the other frequencies have decayed.
ResolvedVisitStep ==
    \A s \in Sessions : \A r \in Dirs :
        Resolves(s, r) /\ ~Has(data[s].ignore, r) =>
            /\ Has(data'[s].count, r)
            /\ Has(data'[s].time, r)
            /\ Get(data'[s].time, r) = clock'
            /\ data'[s] = remove_old_directories(
                               record_visit(data[s], r, clock'), clock')

C15_ResolvedVisitRecorded == [][ResolvedVisitStep]_vars


\* The frequency of directory k in database d, 0 when it has no record
\* (defaultdict(float)).
Frequency(d, k) == IF Has(d.count, k) THEN Get(d.count, k) ELSE 0

\* Recording a visit to D at time now: every frequency kept is 0.99 times
\* what it was after the increment of D, and D is last visited now.
VisitStep ==
    \A s \in Sessions :
        Runs(s, "add") /\ pc'[s] = "remove_old_directories" =>
            LET D   == args'[s].add
                incremented == [k \in Keys(data[s].count) \cup { D } |->
                                   Frequency(data[s], k) + (IF k = D THEN Scale ELSE 0)]
            IN  /\ Has(data'[s].count, D)
                /\ Has(data'[s].time, D)
                /\ Get(data'[s].time, D) = clock'
                /\ Keys(data'[s].count) = DOMAIN incremented
                /\ \A k \in Keys(data'[s].count) :
                      /\ incremented[k] % 100 = 0
                      /\ Get(data'[s].count, k) = 99 * (incremented[k] \div 100)
                      /\ Get(data'[s].count, k) < incremented[k]
                /\ \A k \in Keys(data'[s].time) \ { D } :
                      Get(data'[s].time, k) = Get(data[s].time, k)

\* No frequency of the map is negative.
NonNegative(counts) == \A i \in 1..Len(counts) : counts[i].val >= 0

\* On a database without records decay and eviction change nothing, and
\* no frequency is negative, in memory or in the file.
DecayIsSafe ==
    /\ discount_counts(default_json) = default_json
    /\ remove_old_directories(default_json, clock) = default_json
    /\ \A s \in Sessions :
          /\ data[s].count = << >> => discount_counts(data[s]) = data[s]
          /\ data[s].time = << >> /\ data[s].count = << >> =>
                remove_old_directories(data[s], clock) = data[s]
          /\ NonNegative(data[s].count)
    /\ file.exists /\ Parsable(file.text) =>
          NonNegative(Stored(file.text).count)

\* C16: recording a visit to D at time now increments the frequency of D
\* by 1, sets its last visit to now and then multiplies every frequency,
\* that of D included, by 0.99, on every recorded visit; on an empty
\* database decay and eviction change nothing, and every stored frequency
\* is non-negative.
C16_RecordVisit == [] DecayIsSafe /\ [][VisitStep]_vars

\* C16 witness: a visit has been recorded on a database that already held
\* another directory, whose frequency has decayed with it.
C16_Witness ==
    \E s \in Sessions :
        /\ pc[s] = "write_data"
        /\ branch[s] = "add"
        /\ file.exists
        /\ Len(data[s].count) = 2
        /\ \E k \in Keys(data[s].count) \ { args[s].add } :
              /\ Has(Stored(file.text).count, k)
              /\ Get(data[s].count, k) = 99 * (Get(Stored(file.text).count, k) \div 100)


\* The operation categories in their order of precedence.
Precedence == << "mark", "ignore", "jump", "add", "menu", "search" >>

\* Command line a asks for category b on database d.
Requested(b, a, d) ==
    CASE b = "mark"   -> Truthy(a.mark)
      [] b = "ignore" -> a.ignore
      [] b = "jump"   -> Truthy(a.jump)
      [] b = "add"    -> Truthy(a.add) /\ ~Has(d.ignore, a.add)
      [] b = "menu"   -> a.directory = << >>
      [] b = "search" -> a.directory # << >>

\* The first category, in order of precedence, that a asks for.
Winner(a, d) ==
    LET i == CHOOSE j \in 1..Len(Precedence) :
                 /\ Requested(Precedence[j], a, d)
                 /\ \A k \in 1..(j - 1) : ~Requested(Precedence[k], a, d)
    IN  Precedence[i]

\* Command line a with only the request of category b left on it.
Only(a, b) ==
    CASE b = "mark"   -> [NoArgs EXCEPT !.mark = a.mark, !.delete = a.delete,
                                        !.current_directory = a.current_directory]
      [] b = "ignore" -> [NoArgs EXCEPT !.ignore = TRUE, !.delete = a.delete,
                                        !.current_directory = a.current_directory]
      [] b = "jump"   -> [NoArgs EXCEPT !.jump = a.jump]
      [] b = "add"    -> [NoArgs EXCEPT !.add = a.add]
      [] b = "menu"   -> NoArgs
      [] b = "search" -> [NoArgs EXCEPT !.directory = a.directory]

\* Command line a carries requests of more than one category.
Several(a, d) ==
    Cardinality({ b \in { "mark", "ignore", "jump", "add", "search" } :
                    Requested(b, a, d) }) > 1

\* What main() makes of outcome o of a branch: the database it goes on
\* with, the directory resolved, its output so far and where it continues.
Effect(o, w, out) ==
    [data  |-> IF o.exited THEN default_json ELSE o.data,
     ret   |-> o.ret,
     lines |-> out \o o.lines,
     pc    |-> IF o.exited THEN "done"
               ELSE IF w = "add" THEN "remove_old_directories" ELSE "write_data"]

\* What the request of category w on command line a does when it is alone
\* on the command line.
Alone(a, w, d, os_cwd, sel, now, out) ==
    Effect(main_branch(Only(a, w), d, os_cwd, sel, now), w, out)

\* The invocation does what the first category asked for does alone.
PrecedenceStep ==
    \A s \in Sessions :
        pc[s] = "loaded" /\ pc'[s] # "loaded" /\ branch'[s] # "" =>
            /\ branch'[s] = Winner(args'[s], data[s])
            /\ branch_of(Only(args'[s], branch'[s]), data[s]) = branch'[s]
            /\ [data |-> data'[s], ret |-> jump_directory'[s],
                lines |-> stdout'[s], pc |-> pc'[s]]
                  = Alone(args'[s], Winner(args'[s], data[s]), data[s],
                          cwd'[s], selection'[s], clock', stdout[s])

\* C17: an invocation applies exactly one operation category, the first
\* that its command line asks for in the order mark, ignore, jump, visit
\* recording, menu, search: with several flags together the database, the
\* resolved directory and the output are those of the first request alone,
\* and the requests of lower precedence have no effect.
C17_Precedence == [][PrecedenceStep]_vars

\* C17 witness: a command line with a mark, an ignore, a jump, an add and
\* a positional argument has set the mark and done nothing else.
C17_Witness ==
    \E s \in Sessions :
        /\ pc[s] = "write_data"
        /\ Several(args[s], data[s])
        /\ Truthy(args[s].mark) /\ args[s].ignore /\ Truthy(args[s].jump)
        /\ Truthy(args[s].add) /\ args[s].directory # << >>
        /\ branch[s] = "mark"
        /\ Has(data[s].mark, args[s].mark)
        /\ data[s].ignore = << >>
        /\ data[s].count = << >>
        /\ jump_directory[s] = None


Min(a, b) == IF a < b THEN a ELSE b

\* Positions from..to of the menu show distinct directories of map m in
\* descending order of their values, and no directory left out has a
\* larger value than one shown.
RankedTop(options, from, to, m) ==
    /\ \A i \in from..to : Has(m, options[i].val)
    /\ \A i, j \in from..to :
          i < j => /\ options[i].val # options[j].val
                   /\ Get(m, options[i].val) >= Get(m, options[j].val)
    /\ \A k \in Keys(m) \ { options[i].val : i \in from..to } :
          \A i \in from..to : Get(m, options[i].val) >= Get(m, k)

\* The menu of database d, the reply sel to it and what the reply resolved
\* to.
MenuNumbered(d, sel, ret) ==
    LET options == print_menu(d)
        f == Min(Len(d.count), MAX_CHOICES)
        r == Min(Len(d.time), MAX_CHOICES)
        indices == { k \in 0..(f + r - 1) : str(k) = sel }
    IN  /\ Len(options) = f + r
        /\ \A i \in 1..Len(options) : options[i].key = str(i - 1)
        /\ RankedTop(options, 1, f, d.count)
        /\ RankedTop(options, f + 1, f + r, d.time)
        /\ \A k \in indices : ret = options[k + 1].val
        /\ sel \in { "i", "m" } => ret = None
        /\ indices = {} => ret = None

\* C18: the menu numbers its entries 0, 1, 2, ... without a gap: first the
\* at most 10 most frequent directories in descending frequency, then the
\* at most 10 most recent directories in descending last-visit time; a
\* reply equal to a rendered index resolves to the directory shown at that
\* index, a reply of 'i' or 'm' resolves nothing and any other reply
\* resolves nothing.
C18_MenuNumbering ==
    \A s \in Sessions :
        pc[s] = "write_data" /\ branch[s] = "menu" =>
            MenuNumbered(data[s], selection[s], jump_directory[s])

\* C18 witness: on a database of more than 10 directories the reply 19 has
\* resolved to the last entry of the recency list, which is not the
\* directory visited last.
C18_Witness ==
    \E s \in Sessions :
        /\ pc[s] = "write_data"
        /\ branch[s] = "menu"
        /\ Len(data[s].count) > MAX_CHOICES
        /\ selection[s] = "19"
        /\ Truthy(jump_directory[s])
        /\ jump_directory[s] = print_menu(data[s])[2 * MAX_CHOICES].val
        /\ \E k \in Keys(data[s].time) :
              Get(data[s].time, k) > Get(data[s].time, jump_directory[s])


\* The count map and the time map of database d have the same keys.
SameKeys(d) == Keys(d.count) = Keys(d.time)

\* The maps agree in memory, in what is about to be written and in the
\* file, and a visit recording never ends before its save.
KeysAgree ==
    /\ \A s \in Sessions :
          /\ SameKeys(data[s])
          /\ Truthy(json_data[s]) => SameKeys(Stored(json_data[s]))
          /\ pc[s] = "done" /\ branch[s] = "add" /\ exit_code[s] = 1 => saves[s] = 1
    /\ file.exists /\ Parsable(file.text) => SameKeys(Stored(file.text))

\* Visit recording adds the directory to both maps, ignore and eviction
\* remove a directory from both, and eviction finds a frequency for every
\* directory it deletes.
KeysStep ==
    \A s \in Sessions :
        /\ Runs(s, "add") =>
              /\ pc'[s] = "remove_old_directories"
              /\ Keys(data'[s].count) = Keys(data[s].count) \cup { args'[s].add }
              /\ Keys(data'[s].time) = Keys(data[s].time) \cup { args'[s].add }
        /\ pc[s] = "remove_old_directories" /\ pc'[s] # pc[s] =>
              /\ ~stale_without_count(data[s], clock')
              /\ pc'[s] = "done" => exit_code'[s] \in { 130, 137 }
              /\ pc'[s] = "write_data" =>
                    Keys(data[s].count) \ Keys(data'[s].count)
                        = Keys(data[s].time) \ Keys(data'[s].time)
        /\ Runs(s, "ignore") /\ ~args'[s].delete =>
              LET current_directory ==
                      IF Truthy(args'[s].current_directory)
                      THEN args'[s].current_directory ELSE cwd'[s]
              IN  /\ Keys(data'[s].count) = Keys(data[s].count) \ { current_directory }
                  /\ Keys(data'[s].time) = Keys(data[s].time) \ { current_directory }

\* C19: starting from an empty database, after any sequence of invocations
\* the count map and the time map have the same keys: visit recording adds
\* a directory to both, ignore and eviction remove it from both, so
\* eviction never deletes a frequency that does not exist.
C19_SameKeys == [] KeysAgree /\ [][KeysStep]_vars

\* C19 witness: an ignore has taken a visited directory out of both maps
\* and another directory is left in both.
C19_Witness ==
    \E s \in Sessions :
        /\ pc[s] = "write_data"
        /\ branch[s] = "ignore"
        /\ file.exists
        /\ \E k \in Keys(data[s].ignore) :
              /\ Has(Stored(file.text).count, k)
              /\ Has(Stored(file.text).time, k)
              /\ ~Has(data[s].count, k)
              /\ ~Has(data[s].time, k)
        /\ Len(data[s].count) = 1
        /\ Len(data[s].time) = 1

===========================================================================
